---- MODULE Spec2Model ----
(***************************************************************************)
(* lab-aggregate: the event-sourcing AggregateRoot (apply, commit,         *)
(* uncommit, loadFromHistory, loadFromEventNodes, setFailureHandler, fail) *)
(* and the fluent assertion chain `check` that inspects the aggregate's    *)
(* uncommitted event buffer.                                               *)
(*                                                                         *)
(* The aggregate under study is the TestAggregate of aggregate-root.spec   *)
(* (create / onCreated) extended with one handler that raises, onClosed;   *)
(* events of class Updated have no handler.                                *)
(***************************************************************************)
EXTENDS Integers, Sequences, FiniteSets, TLC

(***************************************************************************)
(* Bounds of the model.                                                    *)
(***************************************************************************)
\* longest uncommitted buffer explored
MaxPending == 2
\* longest loaded-event record explored
MaxLoaded == 2
\* longest sequence handed to one loadFromHistory / loadFromEventNodes call
MaxHistory == 2
\* longest uncommitted buffer explored while history is being replayed
MaxDirty == 1
\* largest occurrence count handed to exactly(n)
MaxExpectation == 2

(***************************************************************************)
(* Values.                                                                 *)
(***************************************************************************)
\* JavaScript undefined (a field never assigned) and null
Undefined == "undefined"
Null == "null"
\* An Error: throwError sets actual and expected on the errors of the chain
Error(message) == [message |-> message, actual |-> Undefined, expected |-> Undefined]
\* no error in flight
NoError == [message |-> Null, actual |-> Null, expected |-> Null]

\* An event is an instance of a class; `type` is the name of the constructor
\* of its prototype, the other fields are its own properties.
Event(type, id, createdAt) == [type |-> type, id |-> id, createdAt |-> createdAt]

\* new Created('id-01', '2022-04-11') and a second Created, new Updated(),
\* new Closed()
Created01 == Event("Created", "id-01", "2022-04-11")
Created02 == Event("Created", "id-02", "2022-04-12")
UpdatedEv == Event("Updated", Undefined, Undefined)
ClosedEv == Event("Closed", Undefined, Undefined)

Events == {Created01, Created02, UpdatedEv, ClosedEv}

\* new SnapshotBearV1Event(state) of the README, and an event whose handler
\* builds on the state it finds
SnapshotBearV1Event(data) == [type |-> "SnapshotBearV1Event", data |-> data]
Tagged(tag) == [type |-> "Tagged", tag |-> tag]

\* IEventNode: an event wrapped with persistence metadata
Node(event, index) == [event |-> event, metadata |-> [id |-> "node", index |-> index]]

\* the error the raising handler throws, and the errors handed to fail
ClosedError == Error("already closed")
Errors == {Error("E1"), Error("E2")}

\* failure handlers an aggregate loader may install: one that only unlocks
\* and returns, one that unlocks and re-raises the error (README)
FailureHandlers == {"unlock", "unlockAndThrow"}

\* sequences over S of length 0..n
RECURSIVE SeqsUpTo(_, _)
SeqsUpTo(S, n) ==
  IF n = 0 THEN {<<>>}
  ELSE LET shorter == SeqsUpTo(S, n - 1)
       IN shorter \cup {Append(s, e) : s \in {t \in shorter : Len(t) = n - 1}, e \in S}

(***************************************************************************)
(* State.                                                                  *)
(***************************************************************************)
VARIABLES
  uncommitted,     \* this[INTERNAL_EVENTS]
  loaded,          \* this[INTERNAL_EVENTS_HISTORY]
  loadedNodes,     \* this[INTERNAL_EVENTS_NODES_HISTORY]
  failureHandler,  \* this[FAILURE_HANDLER]
  state,           \* this.state
  flags,           \* check: the flags pushed on the chain (only membership is ever read)
  events,          \* check: the target event classes of the chain
  occuranceExpectation, \* check: the count set by exactly(n), -1 when unset
  withMessage,     \* check: the expected error-message substring
  promise,         \* check: the promise of the last assertWhen call, once settled
  afterRun,        \* check: the call of after in progress, its for loop and callbacks
  calls,           \* event handlers invoked by the last operation, in order
  failureCalls,    \* failure-handler invocations made by the last operation
  result,          \* how the last operation ended: normal return or throw
  last,            \* the last operation called and its arguments
  pending,         \* events passed to apply(e, false) since the last commit/uncommit
  installed,       \* the failure handlers installed so far: the latest, and the earlier ones
  held             \* the array a caller got from getUncommittedEvents() and still holds

aggVars == <<uncommitted, loaded, loadedNodes, failureHandler, state>>
chainVars == <<flags, events, occuranceExpectation, withMessage, promise, afterRun>>
vars == <<uncommitted, loaded, loadedNodes, failureHandler, state,
          flags, events, occuranceExpectation, withMessage, promise, afterRun,
          calls, failureCalls, result, last, pending, installed, held>>

(***************************************************************************)
(* The aggregate as a value threaded through its methods: the object's     *)
(* fields, the handler invocations made so far and the error in flight.    *)
(***************************************************************************)
Fresh == [events |-> <<>>, history |-> <<>>, nodes |-> <<>>,
          handler |-> Null, state |-> [id |-> Undefined, createdAt |-> Undefined],
          calls |-> <<>>, failureCalls |-> <<>>, thrown |-> NoError]

Self == [events |-> uncommitted, history |-> loaded, nodes |-> loadedNodes,
         handler |-> failureHandler, state |-> state,
         calls |-> <<>>, failureCalls |-> <<>>, thrown |-> NoError]

\* the function-valued properties of the TestAggregate instance
Methods == {"create", "onCreated", "onClosed", "onSnapshotBearV1Event", "onTagged",
            "getState", "commit", "uncommit", "apply", "fail"}

\* TestAggregate.onCreated copies the event's fields into state
onCreated(r, event) ==
  [r EXCEPT !.state = [id |-> event.id, createdAt |-> event.createdAt]]

\* a handler that rejects the event with a domain error
onClosed(r, event) == [r EXCEPT !.thrown = ClosedError]

\* a snapshot handler that leaves the state it finds
onSnapshotKeepsState(r, event) == r

\* Bear.onSnapshotBearV1Event of the README: this.state = event.data
onSnapshotBearV1Event(r, event) == [r EXCEPT !.state = event.data]

\* a handler that builds up differential state: it extends the id it finds
\* by the event's tag
onTagged(r, event) == [r EXCEPT !.state.id = @ \o "/" \o event.tag]

\* getEventName read from the instance instead of its prototype's constructor
getEventNameOfInstance(event) == Undefined

\* getEventName: the constructor name of the event's prototype
getEventName(event) == event.type

\* getEventHandler: the method `on<EventName>` when it is a function
getEventHandler(event) ==
  LET handler == "on" \o getEventName(event)
  IN IF handler \in Methods THEN handler ELSE Undefined

\* handler.call(this, event)
call(r, handler, event) ==
  LET r1 == [r EXCEPT !.calls = Append(@, [handler |-> handler, event |-> event])]
  IN CASE handler = "onCreated" -> onCreated(r1, event)
       [] handler = "onClosed" -> onClosed(r1, event)
       [] handler = "onSnapshotBearV1Event" -> onSnapshotBearV1Event(r1, event)
       [] handler = "onTagged" -> onTagged(r1, event)
       [] OTHER -> r1

\* apply that records the event whatever isFromHistory says
applyRecordsAlways(r, event, isFromHistory) ==
  LET r1 == [r EXCEPT !.events = Append(@, event)]
      handler == getEventHandler(event)
  IN IF handler # Undefined THEN call(r1, handler, event) ELSE r1

\* apply that rejects an event without a handler
applyRequiresHandler(r, event, isFromHistory) ==
  LET r1 == IF ~isFromHistory THEN [r EXCEPT !.events = Append(@, event)] ELSE r
      handler == getEventHandler(event)
  IN IF handler # Undefined THEN call(r1, handler, event)
     ELSE [r1 EXCEPT !.thrown = Error("no handler")]

\* apply that dispatches first and records the event once its handler returned
applyDispatchesFirst(r, event, isFromHistory) ==
  LET handler == getEventHandler(event)
      r1 == IF handler # Undefined THEN call(r, handler, event) ELSE r
  IN IF ~isFromHistory /\ r1.thrown = NoError
     THEN [r1 EXCEPT !.events = Append(@, event)]
     ELSE r1

\* AggregateRoot.apply
apply(r, event, isFromHistory) ==
  LET r1 == IF ~isFromHistory THEN [r EXCEPT !.events = Append(@, event)] ELSE r
      handler == getEventHandler(event)
  IN IF handler # Undefined THEN call(r1, handler, event) ELSE r1

\* TestAggregate.create
create(r) == apply(r, Created01, FALSE)

\* commit that drops only the newest event
commitDropsLast(r) ==
  [r EXCEPT !.events = IF @ = <<>> THEN <<>> ELSE SubSeq(@, 1, Len(@) - 1)]

\* AggregateRoot.commit
commit(r) == [r EXCEPT !.events = <<>>]

\* AggregateRoot.uncommit
uncommit(r) == [r EXCEPT !.events = <<>>]

\* loadFromHistory that applies the events as new ones
RECURSIVE loadFromHistoryAsNew(_, _)
loadFromHistoryAsNew(r, history) ==
  IF history = <<>> THEN r
  ELSE LET r1 == apply(r, Head(history), FALSE)
       IN IF r1.thrown # NoError THEN r1
          ELSE loadFromHistoryAsNew([r1 EXCEPT !.history = Append(@, Head(history))],
                                    Tail(history))

\* loadFromHistory that starts the record over on every call
RECURSIVE loadFromHistoryAppend(_, _)
loadFromHistoryAppend(r, history) ==
  IF history = <<>> THEN r
  ELSE LET r1 == apply(r, Head(history), TRUE)
       IN IF r1.thrown # NoError THEN r1
          ELSE loadFromHistoryAppend([r1 EXCEPT !.history = Append(@, Head(history))],
                                     Tail(history))
loadFromHistoryResets(r, history) ==
  loadFromHistoryAppend([r EXCEPT !.history = <<>>], history)

\* loadFromHistory that records the events as loaded without dispatching them
loadFromHistoryRecordsOnly(r, history) == [r EXCEPT !.history = @ \o history]

\* AggregateRoot.loadFromHistory: forEach stops at the first event whose
\* handler raises
RECURSIVE loadFromHistory(_, _)
loadFromHistory(r, history) ==
  IF history = <<>> THEN r
  ELSE LET r1 == apply(r, Head(history), TRUE)
       IN IF r1.thrown # NoError THEN r1
          ELSE loadFromHistory([r1 EXCEPT !.history = Append(@, Head(history))],
                               Tail(history))

\* the first forEach of loadFromEventNodes
RECURSIVE loadNodes(_, _)
loadNodes(r, nodes) ==
  IF nodes = <<>> THEN r
  ELSE LET r1 == apply(r, Head(nodes).event, TRUE)
       IN IF r1.thrown # NoError THEN r1
          ELSE loadNodes([r1 EXCEPT !.nodes = Append(@, Head(nodes))], Tail(nodes))

\* loadFromEventNodes that records the events without a second dispatch
loadFromEventNodesOnce(r, nodes) ==
  LET r1 == loadNodes(r, nodes)
      nodeEvents == [i \in 1..Len(nodes) |-> nodes[i].event]
  IN IF r1.thrown # NoError THEN r1 ELSE [r1 EXCEPT !.history = @ \o nodeEvents]

\* AggregateRoot.loadFromEventNodes
loadFromEventNodes(r, nodes) ==
  LET r1 == loadNodes(r, nodes)
      nodeEvents == [i \in 1..Len(nodes) |-> nodes[i].event]
  IN IF r1.thrown # NoError THEN r1 ELSE loadFromHistory(r1, nodeEvents)

\* setFailureHandler that keeps a handler already installed
setFailureHandlerOnce(r, handler) ==
  IF r.handler = Null THEN [r EXCEPT !.handler = handler] ELSE r

\* AggregateRoot.setFailureHandler
setFailureHandler(r, handler) == [r EXCEPT !.handler = handler]

\* the installed failure handler runs: both README handlers unlock, the
\* second then throws the error it was given
callFailureHandler(r, error) ==
  LET r1 == [r EXCEPT !.failureCalls = Append(@, [handler |-> r.handler, error |-> error])]
  IN IF r.handler = "unlockAndThrow" THEN [r1 EXCEPT !.thrown = error] ELSE r1

\* fail without the return after the handler ran
failFallsThrough(r, error) ==
  IF r.handler # Null THEN [callFailureHandler(r, error) EXCEPT !.thrown = error]
  ELSE [r EXCEPT !.thrown = error]

\* AggregateRoot.fail
fail(r, error) ==
  IF r.handler # Null THEN callFailureHandler(r, error)
  ELSE [r EXCEPT !.thrown = error]

\* getters
getUncommittedEvents == uncommitted
getLoadedEvents == loaded
getLoadedEventNodes == loadedNodes
getState == state

\* the arrays a caller can hold: `array` names the object, `read` is what it
\* held when it was handed out
NoRef == [array |-> "none", read |-> <<>>]

\* getUncommittedEvents that returns a copy of the buffer
getUncommittedEventsCopy(r) == [array |-> "copy", read |-> r.events]

\* getUncommittedEvents as a call: return this[INTERNAL_EVENTS], the array
\* object itself
getUncommittedEventsArray(r) == [array |-> "INTERNAL_EVENTS", read |-> r.events]

\* the elements a caller finds in an array it holds: the aggregate's own
\* array holds what commit, uncommit and apply left in it
elementsOf(ref) == IF ref.array = "INTERNAL_EVENTS" THEN uncommitted ELSE ref.read

(***************************************************************************)
(* Initial state: new TestAggregate(), and check(aggregate) around it.     *)
(***************************************************************************)
InitChain ==
  /\ flags = {}
  /\ events = <<>>
  /\ occuranceExpectation = -1
  /\ withMessage = Undefined

\* no call of when or after was made yet
NoPromise == [state |-> "none", error |-> NoError]
NoAfter == [phase |-> "idle", fnList |-> <<>>, begun |-> {}, settled |-> {}, thrown |-> <<>>]

Init ==
  /\ uncommitted = <<>>
  /\ loaded = <<>>
  /\ loadedNodes = <<>>
  /\ failureHandler = Null
  /\ state = [id |-> Undefined, createdAt |-> Undefined]
  /\ InitChain
  /\ promise = NoPromise
  /\ afterRun = NoAfter
  /\ calls = <<>>
  /\ failureCalls = <<>>
  /\ result = [kind |-> "ok"]
  /\ last = [op |-> "new"]
  /\ pending = <<>>
  /\ installed = [latest |-> Null, earlier |-> {}]
  /\ held = NoRef

\* the object after a method ran, and how the method ended
Becomes(r) ==
  /\ uncommitted' = r.events
  /\ loaded' = r.history
  /\ loadedNodes' = r.nodes
  /\ failureHandler' = r.handler
  /\ state' = r.state
  /\ calls' = r.calls
  /\ failureCalls' = r.failureCalls
  /\ result' = IF r.thrown = NoError THEN [kind |-> "ok"]
               ELSE [kind |-> "throw", error |-> r.thrown]

ClearingOps == {"commit", "uncommit"}
ReplayOps == {"loadFromHistory", "loadFromEventNodes", "loads"}

(***************************************************************************)
(* Operations on the aggregate.                                            *)
(***************************************************************************)
CallApply(event, isFromHistory) ==
  /\ isFromHistory \/ Len(uncommitted) < MaxPending
  /\ Becomes(apply(Self, event, isFromHistory))
  /\ last' = [op |-> "apply", event |-> event, isFromHistory |-> isFromHistory]
  /\ pending' = IF isFromHistory THEN pending ELSE Append(pending, event)
  /\ UNCHANGED <<installed, held, chainVars>>

CallCreate ==
  /\ Len(uncommitted) < MaxPending
  /\ Becomes(create(Self))
  /\ last' = [op |-> "create", fresh |-> (last.op = "new")]
  /\ pending' = Append(pending, Created01)
  /\ UNCHANGED <<installed, held, chainVars>>

\* `cleared` is the length of the buffer the first of a run of consecutive
\* commit/uncommit calls met; `again` says that this call follows another one
Clearing(op) ==
  [op |-> op,
   again |-> (last.op \in ClearingOps),
   cleared |-> IF last.op \in ClearingOps THEN last.cleared ELSE Len(uncommitted)]

CallCommit ==
  /\ Becomes(commit(Self))
  /\ last' = Clearing("commit")
  /\ pending' = <<>>
  /\ UNCHANGED <<installed, held, chainVars>>

CallUncommit ==
  /\ Becomes(uncommit(Self))
  /\ last' = Clearing("uncommit")
  /\ pending' = <<>>
  /\ UNCHANGED <<installed, held, chainVars>>

CallLoadFromHistory(history) ==
  /\ Len(loaded) + Len(history) <= MaxLoaded
  /\ Becomes(loadFromHistory(Self, history))
  /\ last' = [op |-> "loadFromHistory", history |-> history]
  /\ UNCHANGED <<pending, installed, held, chainVars>>

CallLoadFromEventNodes(nodes) ==
  /\ Len(loaded) + Len(nodes) <= MaxLoaded
  /\ Len(loadedNodes) + Len(nodes) <= MaxLoaded
  /\ Becomes(loadFromEventNodes(Self, nodes))
  /\ last' = [op |-> "loadFromEventNodes", nodes |-> nodes]
  /\ UNCHANGED <<pending, installed, held, chainVars>>

CallSetFailureHandler(handler) ==
  /\ Becomes(setFailureHandler(Self, handler))
  /\ last' = [op |-> "setFailureHandler", handler |-> handler]
  /\ UNCHANGED held
  /\ installed' = [latest |-> handler,
                   earlier |-> IF installed.latest = Null THEN installed.earlier
                               ELSE installed.earlier \cup {installed.latest}]
  /\ UNCHANGED <<pending, chainVars>>

CallFail(error) ==
  /\ Becomes(fail(Self, error))
  /\ last' = [op |-> "fail", error |-> error]
  /\ UNCHANGED <<pending, installed, held, chainVars>>

\* check(aggregate).loads(eventStream)
ChainLoads(eventStream) ==
  /\ Len(loaded) + Len(eventStream) <= MaxLoaded
  /\ Becomes(loadFromHistory(Self, eventStream))
  /\ last' = [op |-> "loads", history |-> eventStream]
  /\ UNCHANGED <<pending, installed, held, chainVars>>

\* the history of the tests: [new Created(), new Updated(), new Closed()]
HistoryEvents == {Created01, UpdatedEv, ClosedEv}
Histories == SeqsUpTo(HistoryEvents, MaxHistory)

\* two nodes whose events have a handler each and differ
CreatedNodes == <<Node(Created01, 0), Node(Created02, 1)>>
NodeLists == {[i \in 1..Len(h) |-> Node(h[i], i - 1)] : h \in Histories} \cup {CreatedNodes}

(***************************************************************************)
(* Spec: the uncommitted buffer, event dispatch and the failure handler.   *)
(***************************************************************************)
Next ==
  \/ \E event \in Events, isFromHistory \in BOOLEAN : CallApply(event, isFromHistory)
  \/ CallCreate
  \/ CallCommit
  \/ CallUncommit
  \/ \E handler \in FailureHandlers : CallSetFailureHandler(handler)
  \/ \E error \in Errors : CallFail(error)

Spec == Init /\ [][Next]_vars

(***************************************************************************)
(* SpecReplay: replay of history on clean and dirty aggregates.            *)
(***************************************************************************)
ApplyWhileReplaying(event) ==
  /\ Len(uncommitted) < MaxDirty
  /\ CallApply(event, FALSE)

NextReplay ==
  \/ \E event \in HistoryEvents : ApplyWhileReplaying(event)
  \/ CallCommit
  \/ CallUncommit
  \/ \E history \in Histories : CallLoadFromHistory(history)
  \/ \E nodes \in NodeLists : CallLoadFromEventNodes(nodes)
  \/ \E eventStream \in Histories : ChainLoads(eventStream)

SpecReplay == Init /\ [][NextReplay]_vars

(***************************************************************************)
(* The assertion chain: check(aggregate).                                  *)
(***************************************************************************)
\* the flags the accessors of the chain push
Flags == {"debug", "throws", "has", "first", "last", "one", "excludes", "exactly"}

\* an event class, as the tests hand it to event/events: `name` is its name
Class(name) == [name |-> name]
Classes == {Class("Created"), Class("Updated"), Class("Closed")}

\* the argument of event/events: one class, or an array of classes
One(class) == [isArray |-> FALSE, value |-> class]
Many(classes) == [isArray |-> TRUE, value |-> classes]
TargetLists == {<<>>} \cup {<<a, b>> : a \in Classes, b \in Classes}
Targets == {One(c) : c \in Classes} \cup {Many(l) : l \in TargetLists}

\* the counts handed to exactly(n)
Expectations == 0..MaxExpectation

\* getEventClassName and getEventProtoName of the toolkit
getEventClassName(event) == event.name
getEventProtoName(event) == event.type

\* occurances that only tells whether the key is in the list
RECURSIVE occurancesFound(_, _)
occurancesFound(list, key) ==
  IF list = <<>> THEN 0
  ELSE IF Head(list) = key THEN 1 ELSE occurancesFound(Tail(list), key)

\* occurances: the number of elements of list equal to key
RECURSIVE occurances(_, _)
occurances(list, key) ==
  IF list = <<>> THEN 0
  ELSE occurances(SubSeq(list, 1, Len(list) - 1), key)
         + (IF list[Len(list)] = key THEN 1 ELSE 0)

\* an error thrown with its message alone
throwErrorBare(message, actual, expected) ==
  [message |-> message, actual |-> Undefined, expected |-> Undefined]

\* an error thrown with its actual and expected fields exchanged
throwErrorSwapped(message, actual, expected) ==
  [message |-> message, actual |-> expected, expected |-> actual]

\* throwError: the error thrown, with its actual and expected fields
throwError(message, actual, expected) ==
  [message |-> message, actual |-> actual, expected |-> expected]

\* the last error of a sequence of outcomes: no throw ends the evaluation
RECURSIVE LastError(_)
LastError(outcomes) ==
  IF outcomes = <<>> THEN NoError
  ELSE IF outcomes[Len(outcomes)] # NoError THEN outcomes[Len(outcomes)]
  ELSE LastError(SubSeq(outcomes, 1, Len(outcomes) - 1))

\* the outcome of the first check alone
HeadError(outcomes) == IF outcomes = <<>> THEN NoError ELSE Head(outcomes)

\* the first error of a sequence of outcomes: a throw ends the evaluation
RECURSIVE FirstError(_)
FirstError(outcomes) ==
  IF outcomes = <<>> THEN NoError
  ELSE IF Head(outcomes) # NoError THEN Head(outcomes)
  ELSE FirstError(Tail(outcomes))

\* assertEvent whose excludes branch does not return: the has check follows it
assertEventFallsThrough(c, uncommittedEvents) ==
  LET uncommittedEventNames ==
        [i \in 1..Len(uncommittedEvents) |-> getEventProtoName(uncommittedEvents[i])]
      count(event) == occurances(uncommittedEventNames, getEventClassName(event))
      excluded(event) ==
        IF count(event) # 0
        THEN throwError("Event '" \o getEventClassName(event)
                          \o "' was found in the aggregate event stream.",
                        ToString(count(event)), "0")
        ELSE NoError
      has(event) ==
        IF count(event) = 0
        THEN throwError("Event '" \o getEventClassName(event)
                          \o "' did not match any events in the aggregate stream.",
                        "", "")
        ELSE NoError
  IN IF Len(uncommittedEvents) = 0
     THEN throwError("There are no events in the aggregate event stream to evaluate.",
                     ToString(Len(uncommittedEvents)), "1 or more")
     ELSE FirstError([i \in 1..Len(c.events) |-> excluded(c.events[i])]
                       \o [i \in 1..Len(c.events) |-> has(c.events[i])])

\* addEvents
addEvents(event) == IF event.isArray THEN event.value ELSE <<event.value>>

\* assertEvent: the error it throws, NoError when it returns. `c` is the
\* chain (flags, events, occuranceExpectation).
assertEvent(c, uncommittedEvents) ==
  LET uncommittedEventNames ==
        [i \in 1..Len(uncommittedEvents) |-> getEventProtoName(uncommittedEvents[i])]
      \* events.forEach(check): the first target whose check throws ends the loop
      forEach(list, Check(_)) == FirstError([i \in 1..Len(list) |-> Check(list[i])])
      excluded(event) ==
        LET eventName == getEventClassName(event)
            occuredCount == occurances(uncommittedEventNames, eventName)
        IN IF occuredCount # 0
           THEN throwError("Event '" \o eventName \o "' was found in the aggregate event stream.",
                           ToString(occuredCount), "0")
           ELSE NoError
      exactly(event) ==
        LET eventName == getEventClassName(event)
            eventCount == occurances(uncommittedEventNames, eventName)
        IN IF eventCount # c.occuranceExpectation
           THEN throwError("Event '" \o eventName
                             \o "' did not match exact event count in the aggregate stream.",
                           ToString(eventCount), ToString(c.occuranceExpectation))
           ELSE NoError
      one(event) ==
        LET eventName == getEventClassName(event)
            eventCount == occurances(uncommittedEventNames, eventName)
        IN IF eventCount < 1
           THEN throwError("Event '" \o eventName
                             \o "' was not found in the aggregate event stream.",
                           ToString(eventCount), "1")
           ELSE IF eventCount > 1
           THEN throwError("Event '" \o eventName
                             \o "' occurs more than once in the aggregate event stream.",
                           ToString(eventCount), "1")
           ELSE NoError
      first(event) ==
        LET firstUncommittedEventName == getEventProtoName(uncommittedEvents[1])
            eventName == getEventClassName(event)
        IN IF firstUncommittedEventName # eventName
           THEN throwError("Event '" \o eventName
                             \o "' is not the first event in the aggregate event stream.",
                           eventName, firstUncommittedEventName)
           ELSE NoError
      lastOne(event) ==
        LET lastUncommittedEventName ==
              getEventProtoName(uncommittedEvents[Len(uncommittedEvents)])
            eventName == getEventClassName(event)
        IN IF lastUncommittedEventName # eventName
           THEN throwError("Event '" \o eventName
                             \o "' is not the last event in the aggregate event stream.",
                           eventName, lastUncommittedEventName)
           ELSE NoError
      has(event) ==
        LET eventName == getEventClassName(event)
            eventCount == occurances(uncommittedEventNames, eventName)
        IN IF eventCount = 0
           THEN throwError("Event '" \o eventName
                             \o "' did not match any events in the aggregate stream.",
                           "", "")
           ELSE NoError
      when(flag, outcome) == IF flag THEN outcome ELSE NoError
  IN IF Len(uncommittedEvents) = 0
     THEN throwError("There are no events in the aggregate event stream to evaluate.",
                     ToString(Len(uncommittedEvents)), "1 or more")
     ELSE IF "excludes" \in c.flags
     THEN forEach(c.events, excluded)
     ELSE FirstError(<<
            when("exactly" \in c.flags, forEach(c.events, exactly)),
            when("one" \in c.flags, forEach(c.events, one)),
            when("first" \in c.flags, forEach(c.events, first)),
            when("last" \in c.flags, forEach(c.events, lastOne)),
            when("has" \in c.flags /\ "one" \notin c.flags /\ "exactly" \notin c.flags,
                 forEach(c.events, has))>>)

\* the closure of check(aggregate)
Chain == [flags |-> flags, events |-> events,
          occuranceExpectation |-> occuranceExpectation, withMessage |-> withMessage]

\* the outcome of a chain call that leaves the aggregate alone
Evaluated(error) ==
  /\ result' = IF error = NoError THEN [kind |-> "ok"] ELSE [kind |-> "throw", error |-> error]
  /\ calls' = <<>>
  /\ failureCalls' = <<>>
  /\ UNCHANGED <<aggVars, pending, installed, held>>

\* check(aggregate).event(e): addEvents, then assertEvent
ChainEvent(event) ==
  /\ events' = addEvents(event)
  /\ Evaluated(assertEvent([Chain EXCEPT !.events = addEvents(event)], getUncommittedEvents))
  /\ last' = [op |-> "event", event |-> event]
  /\ UNCHANGED <<flags, occuranceExpectation, withMessage, promise, afterRun>>

\* check(aggregate).events(e): addEvents, then assertEvent
ChainEvents(event) ==
  /\ events' = addEvents(event)
  /\ Evaluated(assertEvent([Chain EXCEPT !.events = addEvents(event)], getUncommittedEvents))
  /\ last' = [op |-> "events", event |-> event]
  /\ UNCHANGED <<flags, occuranceExpectation, withMessage, promise, afterRun>>

\* the aggregate after the operations of a test applied the given events
RECURSIVE Applied(_, _)
Applied(r, stream) ==
  IF stream = <<>> THEN r
  ELSE Applied([apply(r, Head(stream), FALSE) EXCEPT !.thrown = NoError, !.calls = <<>>],
               Tail(stream))

(***************************************************************************)
(* SpecAssert: the evaluation of event/events as a function of the chain's *)
(* flags and of the uncommitted buffer. It starts from a chain on which    *)
(* the accessors armed any flags (exactly(n) sets the expectation with its *)
(* flag) around an aggregate to which up to MaxPending events were applied.*)
(***************************************************************************)
\* the three-event buffers of the toolkit's tests: Created, Updated, Updated
\* and First, Middle, Last
TestStreams == {<<Created01, UpdatedEv, UpdatedEv>>, <<Created01, UpdatedEv, ClosedEv>>}

\* the buffers an evaluation is drawn on
Streams == SeqsUpTo(Events, MaxPending) \cup TestStreams

InitAssert ==
  \E stream \in Streams, armed \in SUBSET Flags, n \in Expectations :
    /\ uncommitted = Applied(Fresh, stream).events
    /\ state = Applied(Fresh, stream).state
    /\ loaded = <<>>
    /\ loadedNodes = <<>>
    /\ failureHandler = Null
    /\ flags = armed
    /\ events = <<>>
    /\ occuranceExpectation = IF "exactly" \in armed THEN n ELSE -1
    /\ withMessage = Undefined
    /\ promise = NoPromise
    /\ afterRun = NoAfter
    /\ calls = <<>>
    /\ failureCalls = <<>>
    /\ result = [kind |-> "ok"]
    /\ last = [op |-> "check"]
    /\ pending = stream
    /\ installed = [latest |-> Null, earlier |-> {}]
    /\ held = NoRef

\* one evaluation per chain drawn: a later event/events call on the same chain
\* replaces the targets and evaluates the same function of flags and buffer
EvaluateEvent(event) == last.op = "check" /\ ChainEvent(event)
EvaluateEvents(event) == last.op = "check" /\ ChainEvents(event)

NextAssert ==
  \/ \E class \in Classes : EvaluateEvent(One(class))
  \/ \E event \in Targets : EvaluateEvents(event)

SpecAssert == InitAssert /\ [][NextAssert]_vars

(***************************************************************************)
(* when, after and with: the operations a test runs on the aggregate and   *)
(* the error expected of them.                                             *)
(***************************************************************************)
\* String.prototype.toLowerCase, on the letters A to Z
UpperCase == "ABCDEFGHIJKLMNOPQRSTUVWXYZ"
LowerCase == "abcdefghijklmnopqrstuvwxyz"

RECURSIVE toLowerCase(_)
toLowerCase(string) ==
  IF string = "" THEN ""
  ELSE LET char == Head(string)
           at == {i \in 1..Len(UpperCase) : SubSeq(UpperCase, i, i) = char}
       IN (IF at = {} THEN char ELSE LET i == CHOOSE i \in at : TRUE IN SubSeq(LowerCase, i, i))
            \o toLowerCase(Tail(string))

\* String.prototype.includes: right occurs in left
includes(left, right) ==
  \E i \in 0..(Len(left) - Len(right)) : SubSeq(left, i + 1, i + Len(right)) = right

\* the truthiness of withMessage
Truthy(value) == value # Undefined /\ value # ""

\* the callbacks handed to when and after: one that applies an event, at
\* once or (asynchronous callbacks only) after a delay of its own, and an
\* operation of the aggregate that throws
applyFn(event, late) == [kind |-> "apply", event |-> event, late |-> late]
throwFn(error) == [kind |-> "throw", error |-> error, late |-> FALSE]

\* aggregate.verifyEmail("invalid token") of the README
TokenError == Error("Token Invalid")

WhenCallbacks == {applyFn(Created01, FALSE), applyFn(ClosedEv, FALSE), throwFn(TokenError)}
AfterCallbacks == {applyFn(Created01, FALSE), applyFn(UpdatedEv, TRUE), throwFn(TokenError)}
AfterLists == {<<>>} \cup {<<f, g>> : f \in AfterCallbacks, g \in AfterCallbacks}
AfterArguments == {One(f) : f \in AfterCallbacks} \cup {Many(l) : l \in AfterLists}

\* the strings handed to with
WithMessages == {"invalid", "expired"}

\* fn(aggregate): the aggregate when the call returns, `thrown` the error
\* the call raised
callFn(r, fn) ==
  IF fn.kind = "throw" THEN [r EXCEPT !.thrown = fn.error]
  ELSE IF fn.late THEN r
  ELSE apply(r, fn.event, FALSE)

\* what an asynchronous fn does after the call returned and before its
\* promise settles
settleFn(r, fn) ==
  IF fn.kind = "apply" /\ fn.late THEN apply(r, fn.event, FALSE) ELSE r

\* the events the callback applies
applied(fn) == IF fn.kind = "apply" THEN <<fn.event>> ELSE <<>>

\* assertWhen, once fn ended raising `thrown` (NoError: it returned): the
\* error the promise of assertWhen is rejected with, NoError when it is
\* fulfilled
assertWhen(c, thrown) ==
  IF "throws" \in c.flags
  THEN IF thrown # NoError
       THEN LET errMessage == thrown.message
                left == toLowerCase(errMessage)
                right == toLowerCase(c.withMessage)
            IN IF Truthy(c.withMessage) /\ ~includes(left, right)
               THEN throwError("Expected error message did not match",
                               errMessage, c.withMessage)
               ELSE NoError
       ELSE throwError("Failed to throw error for aggregate method", "", "")
  ELSE thrown

\* a promise settled with the error, or fulfilled
Settled(error) ==
  [state |-> IF error = NoError THEN "fulfilled" ELSE "rejected", error |-> error]

\* the object after a callback ran on it
Mutated(r) ==
  /\ uncommitted' = r.events
  /\ loaded' = r.history
  /\ loadedNodes' = r.nodes
  /\ failureHandler' = r.handler
  /\ state' = r.state
  /\ calls' = r.calls
  /\ failureCalls' = r.failureCalls

\* the closure of the chain becomes c
Closure(c) ==
  /\ flags' = c.flags
  /\ events' = c.events
  /\ occuranceExpectation' = c.occuranceExpectation
  /\ withMessage' = c.withMessage

\* the accessors debug, throws, has, first, last, one and excludes
Accessors == Flags \ {"exactly"}
accessor(c, flag) == [c EXCEPT !.flags = @ \cup {flag}]

\* exactly(occurances), its parameter named count here
exactly(c, count) ==
  [c EXCEPT !.flags = @ \cup {"exactly"}, !.occuranceExpectation = count]

\* with(value)
with(c, value) == [c EXCEPT !.withMessage = value]

\* the chain that `and` hands on to the calls after it
andSameChain(c) == c

\* and: check(aggregate), a new closure
and(c) == [flags |-> {}, events |-> <<>>, occuranceExpectation |-> -1,
           withMessage |-> Undefined]

\* a chain call that changes the closure alone and returns the chain
Returns ==
  /\ Evaluated(NoError)
  /\ UNCHANGED <<promise, afterRun>>

ChainAccessor(flag) ==
  /\ Closure(accessor(Chain, flag))
  /\ Returns
  /\ last' = [op |-> flag]

ChainExactly(count) ==
  /\ Closure(exactly(Chain, count))
  /\ Returns
  /\ last' = [op |-> "exactly", count |-> count]

ChainWith(value) ==
  /\ Closure(with(Chain, value))
  /\ Returns
  /\ last' = [op |-> "with", value |-> value]

\* `left` is the closure the chain had before and
ChainAnd ==
  /\ Closure(and(Chain))
  /\ Returns
  /\ last' = [op |-> "and", left |-> Chain]

\* that, it
ChainThat(word) ==
  /\ Closure(Chain)
  /\ Returns
  /\ last' = [op |-> word]

\* when(fn): assertWhen(fn) is called and the promise it returns is dropped;
\* when returns the chain
ChainWhen(fn) ==
  /\ Len(uncommitted) + Len(applied(fn)) <= MaxPending
  /\ LET r == callFn(Self, fn)
     IN /\ Mutated(r)
        /\ promise' = Settled(assertWhen(Chain, r.thrown))
        /\ last' = [op |-> "when", fn |-> fn, thrown |-> r.thrown]
  /\ result' = [kind |-> "ok"]
  /\ pending' = pending \o applied(fn)
  /\ UNCHANGED <<flags, events, occuranceExpectation, withMessage, afterRun, installed, held>>

\* every callback at once: none waits for the one before it
nextFuncAtOnce(run) == DOMAIN run.fnList \ run.begun

\* for (const func of fnList) await assertWhen(func, true): the position of
\* the callback the loop calls next, none while a callback is awaited
nextFunc(run) ==
  IF run.begun = run.settled /\ Cardinality(run.begun) < Len(run.fnList)
  THEN {Cardinality(run.begun) + 1}
  ELSE {}

\* after(fn): the call, up to the for loop; the caller holds a pending promise
ChainAfter(fn) ==
  LET fnList == IF fn.isArray THEN fn.value ELSE <<fn.value>>
      toApply == {i \in DOMAIN fnList : fnList[i].kind = "apply"}
  IN /\ Len(uncommitted) + Cardinality(toApply) <= MaxPending
     /\ afterRun' = [phase |-> "running", fnList |-> fnList, begun |-> {}, settled |-> {},
                     thrown |-> [i \in DOMAIN fnList |-> NoError]]
     /\ result' = [kind |-> "pending"]
     /\ last' = [op |-> "after", fn |-> fn]
     /\ calls' = <<>>
     /\ failureCalls' = <<>>
     /\ UNCHANGED <<aggVars, flags, events, occuranceExpectation, withMessage,
                    promise, pending, installed, held>>

\* assertWhen(func, true) up to its await: func(aggregate) is called
AfterBegin(i) ==
  /\ afterRun.phase = "running"
  /\ i \in nextFunc(afterRun)
  /\ LET func == afterRun.fnList[i]
         r == callFn(Self, func)
     IN /\ Mutated(r)
        /\ afterRun' = [afterRun EXCEPT !.begun = @ \cup {i}, !.thrown[i] = r.thrown]
        /\ pending' = pending \o (IF func.late THEN <<>> ELSE applied(func))
  /\ UNCHANGED <<flags, events, occuranceExpectation, withMessage,
                 promise, result, last, installed, held>>

\* the promise of func settles and assertWhen resumes: its own promise
\* settles, and a rejection ends the for loop and rejects the promise of after
AfterSettle(i) ==
  /\ afterRun.phase = "running"
  /\ i \in afterRun.begun \ afterRun.settled
  /\ LET func == afterRun.fnList[i]
         r == settleFn(Self, func)
         thrown == IF func.late THEN r.thrown ELSE afterRun.thrown[i]
         error == assertWhen(Chain, thrown)
     IN /\ Mutated(r)
        /\ promise' = Settled(error)
        /\ afterRun' = [afterRun EXCEPT !.settled = @ \cup {i}, !.thrown[i] = thrown,
                                        !.phase = IF error = NoError THEN "running"
                                                  ELSE "rejected"]
        /\ result' = IF error = NoError THEN result ELSE [kind |-> "throw", error |-> error]
        /\ pending' = pending \o (IF func.late THEN applied(func) ELSE <<>>)
  /\ UNCHANGED <<flags, events, occuranceExpectation, withMessage, last, installed, held>>

\* return api: the promise of after is fulfilled with the chain
AfterReturn ==
  /\ afterRun.phase = "running"
  /\ afterRun.settled = DOMAIN afterRun.fnList
  /\ afterRun' = [afterRun EXCEPT !.phase = "fulfilled"]
  /\ result' = [kind |-> "ok"]
  /\ UNCHANGED <<aggVars, flags, events, occuranceExpectation, withMessage,
                 promise, calls, failureCalls, last, pending, installed, held>>

(***************************************************************************)
(* SpecWhen: when and after with the throws flag and an expected message.  *)
(* The test awaits the promise of after before its next call.              *)
(***************************************************************************)
Awaited == afterRun.phase # "running"

NextWhen ==
  \/ Awaited /\ ChainAccessor("throws")
  \/ \E value \in WithMessages : Awaited /\ ChainWith(value)
  \/ \E fn \in WhenCallbacks : Awaited /\ ChainWhen(fn)
  \/ \E fn \in AfterArguments : Awaited /\ ChainAfter(fn)
  \/ Awaited /\ ChainAnd
  \/ Awaited /\ CallCommit
  \/ \E i \in DOMAIN afterRun.fnList : AfterBegin(i)
  \/ \E i \in DOMAIN afterRun.fnList : AfterSettle(i)
  \/ AfterReturn

SpecWhen == Init /\ [][NextWhen]_vars

(***************************************************************************)
(* includes: the fields expected of an event of the uncommitted buffer.    *)
(***************************************************************************)
\* new First('3', 'Marz', ['film', 'tech']) of the toolkit's tests
First3 == [type |-> "First", id |-> "3", name |-> "Marz", likes |-> <<"film", "tech">>]

\* the properties that hold arrays
ArrayProps == {"likes"}

\* one property of the params of includes: isArray says that value is an array
Param(prop, value) == [prop |-> prop, isArray |-> prop \in ArrayProps, value |-> value]

\* event[prop]
Field(event, prop) == IF prop \in DOMAIN event THEN event[prop] ELSE Undefined

\* Array.isArray(event[prop])
IsArrayField(event, prop) == prop \in ArrayProps /\ prop \in DOMAIN event

\* `${value}`: an array is joined with commas
RECURSIVE Join(_)
Join(array) ==
  IF array = <<>> THEN ""
  ELSE IF Len(array) = 1 THEN array[1]
  ELSE array[1] \o "," \o Join(Tail(array))

TemplateOf(value, isArray) == IF isArray THEN Join(value) ELSE value

\* the check of one property of params against an event; `before` and
\* `after` are the message of a mismatch around the property's name
assertProp(event, param, before, after) ==
  LET prop == param.prop
      actual == prop \o " - " \o TemplateOf(Field(event, prop), IsArrayField(event, prop))
      expected == prop \o " - " \o TemplateOf(param.value, param.isArray)
  IN IF IsArrayField(event, prop) /\ param.isArray
     THEN \* expect(event[prop]).to.contain(params[prop])
          IF \A k \in DOMAIN param.value :
               \E j \in DOMAIN event[prop] : event[prop][j] = param.value[k]
          THEN NoError
          ELSE throwError("No property '" \o prop \o "' does not match required list",
                          actual, expected)
     ELSE IF IsArrayField(event, prop) \/ param.isArray
     THEN \* an array !== anything that is not that array
          throwError(before \o "'" \o prop \o "'" \o after, actual, expected)
     ELSE IF Field(event, prop) # param.value
     THEN throwError(before \o "'" \o prop \o "'" \o after, actual, expected)
     ELSE NoError

\* Object.getPrototypeOf(undefined) throws a TypeError
TypeError == Error("TypeError")

\* assertEventParams: the error it throws, NoError when it returns
assertEventParams(c, uncommittedEvents, params) ==
  LET forEach(list, Check(_)) == FirstError([i \in DOMAIN list |-> Check(list[i])])
  IN IF Len(c.events) = 0
     THEN throwError("No events listed - cannot assert event includes params", "", "")
     ELSE IF "last" \in c.flags
     THEN IF uncommittedEvents = <<>> THEN TypeError
          ELSE LET eventName == getEventClassName(c.events[Len(c.events)])
                   lastUncommittedEvent == uncommittedEvents[Len(uncommittedEvents)]
                   lastUncommittedEventName == getEventProtoName(lastUncommittedEvent)
                   before == "No matching property found on last event '" \o eventName
                               \o "' for property "
                   after == " with last aggregate event '" \o lastUncommittedEventName \o "'"
                   checkProp(param) == assertProp(lastUncommittedEvent, param, before, after)
               IN forEach(params, checkProp)
     ELSE LET checkEvent(event) ==
                LET eventName == getEventClassName(event)
                    before == "No matching property found on event '" \o eventName
                                \o "' for property "
                    checkUncommitted(uncommittedEvent) ==
                      LET checkProp(param) == assertProp(uncommittedEvent, param, before, "")
                      IN IF eventName = getEventProtoName(uncommittedEvent)
                         THEN forEach(params, checkProp)
                         ELSE NoError
                IN forEach(uncommittedEvents, checkUncommitted)
          IN forEach(c.events, checkEvent)

\* check(aggregate).includes(params)
ChainIncludes(params) ==
  /\ Closure(Chain)
  /\ Evaluated(assertEventParams(Chain, getUncommittedEvents, params))
  /\ last' = [op |-> "includes", params |-> params]
  /\ UNCHANGED <<promise, afterRun>>

(***************************************************************************)
(* SpecIncludes: event(T) and includes(params) on chains with and without  *)
(* the last flag, around an aggregate to which up to MaxPending events,    *)
(* some of the same type, were applied.                                    *)
(***************************************************************************)
IncludeEvents == {Created01, Created02, UpdatedEv, First3}
IncludeStreams == SeqsUpTo(IncludeEvents, MaxPending)
IncludeClasses == {Class("Created"), Class("Updated"), Class("First")}

\* the params handed to includes
IncludeParams ==
  { <<>>,
    <<Param("id", "id-02")>>,
    <<Param("id", "id-01"), Param("createdAt", "2022-04-11")>>,
    <<Param("id", "3"), Param("name", "Marz"), Param("likes", <<"film", "tech">>)>>,
    <<Param("likes", <<"tech">>)>>,
    <<Param("likes", <<"tech", "music">>)>> }

InitIncludes ==
  \E stream \in IncludeStreams :
    /\ uncommitted = Applied(Fresh, stream).events
    /\ state = Applied(Fresh, stream).state
    /\ loaded = <<>>
    /\ loadedNodes = <<>>
    /\ failureHandler = Null
    /\ InitChain
    /\ promise = NoPromise
    /\ afterRun = NoAfter
    /\ calls = <<>>
    /\ failureCalls = <<>>
    /\ result = [kind |-> "ok"]
    /\ last = [op |-> "check"]
    /\ pending = stream
    /\ installed = [latest |-> Null, earlier |-> {}]
    /\ held = NoRef

NextIncludes ==
  \/ \E class \in IncludeClasses : ChainEvent(One(class))
  \/ \E params \in IncludeParams : ChainIncludes(params)
  \/ \E flag \in {"has", "last"} : ChainAccessor(flag)
  \/ \E word \in {"that", "it"} : ChainThat(word)
  \/ ChainAnd

SpecIncludes == InitIncludes /\ [][NextIncludes]_vars

(***************************************************************************)
(* SpecFlags: the closure of a chain under every call of the chain: the    *)
(* accessors, exactly, with, and, that/it, event, includes, when, after.   *)
(***************************************************************************)
NextFlags ==
  \/ \E flag \in Accessors : Awaited /\ ChainAccessor(flag)
  \/ Awaited /\ ChainExactly(2)
  \/ Awaited /\ ChainWith("invalid")
  \/ Awaited /\ ChainAnd
  \/ Awaited /\ ChainThat("that")
  \/ Awaited /\ ChainEvent(One(Class("Created")))
  \/ Awaited /\ ChainIncludes(<<Param("id", "id-01")>>)
  \/ Awaited /\ ChainWhen(applyFn(Created01, FALSE))
  \/ Awaited /\ ChainAfter(One(applyFn(Created01, TRUE)))
  \/ AfterBegin(1)
  \/ AfterSettle(1)
  \/ AfterReturn

SpecFlags == Init /\ [][NextFlags]_vars

(***************************************************************************)
(* SpecRebuild: the state of a new aggregate as a function of the events   *)
(* it is rebuilt from: loaded as history in one call or in two, loaded as  *)
(* event nodes, or applied one by one. One rebuild per new aggregate.      *)
(***************************************************************************)
\* events.forEach(event => aggregate.apply(event)): a handler that raises
\* ends the loop
RECURSIVE applyEach(_, _)
applyEach(r, stream) ==
  IF stream = <<>> THEN r
  ELSE LET r1 == apply(r, Head(stream), FALSE)
       IN IF r1.thrown # NoError THEN r1 ELSE applyEach(r1, Tail(stream))

\* the states a snapshot was taken of
SnapshotData == {[id |-> "id-07", createdAt |-> "2022-04-10"],
                 [id |-> "id-01/a", createdAt |-> "2022-04-11"]}
Snapshots == {SnapshotBearV1Event(data) : data \in SnapshotData}

\* the events that follow a snapshot
TailEvents == {Tagged("a"), Tagged("b"), Created01, UpdatedEv, ClosedEv}

\* event streams with a snapshot anywhere, and streams of a snapshot and up
\* to MaxHistory events after it
RebuildHistories ==
  SeqsUpTo(TailEvents \cup Snapshots, MaxHistory)
    \cup {<<S>> \o tail : S \in Snapshots, tail \in SeqsUpTo(TailEvents, MaxHistory)}

\* aggregate = new AggregateRoot(); aggregate.loadFromHistory(events)
LoadHistoryIntoNew(history) ==
  /\ Becomes(loadFromHistory(Fresh, history))
  /\ last' = [op |-> "loadHistoryIntoNew", history |-> history]
  /\ pending' = <<>>
  /\ UNCHANGED held
  /\ installed' = [latest |-> Null, earlier |-> {}]
  /\ UNCHANGED chainVars

\* the same history handed over in two calls of loadFromHistory
LoadPartsIntoNew(first, rest) ==
  /\ LET r1 == loadFromHistory(Fresh, first)
     IN Becomes(IF r1.thrown # NoError THEN r1
                ELSE loadFromHistory([r1 EXCEPT !.calls = <<>>], rest))
  /\ last' = [op |-> "loadPartsIntoNew", history |-> first \o rest, first |-> first]
  /\ pending' = <<>>
  /\ UNCHANGED held
  /\ installed' = [latest |-> Null, earlier |-> {}]
  /\ UNCHANGED chainVars

\* AggregateManagerService.loadAggregate of the README: a new aggregate, its
\* failure handler, loadFromEventNodes(eventHistory)
LoadAggregate(eventHistory) ==
  /\ Becomes(loadFromEventNodes(setFailureHandler(Fresh, "unlockAndThrow"), eventHistory))
  /\ last' = [op |-> "loadAggregate",
              history |-> [i \in DOMAIN eventHistory |-> eventHistory[i].event]]
  /\ pending' = <<>>
  /\ UNCHANGED held
  /\ installed' = [latest |-> "unlockAndThrow", earlier |-> {}]
  /\ UNCHANGED chainVars

\* a new aggregate on which the events are applied one by one
ApplyToNew(stream) ==
  /\ Becomes(applyEach(Fresh, stream))
  /\ last' = [op |-> "applyToNew", history |-> stream]
  /\ pending' = applyEach(Fresh, stream).events
  /\ UNCHANGED held
  /\ installed' = [latest |-> Null, earlier |-> {}]
  /\ UNCHANGED chainVars

IsNew == last.op = "new"

NextRebuild ==
  \/ \E history \in RebuildHistories : IsNew /\ LoadHistoryIntoNew(history)
  \/ \E history \in RebuildHistories : \E k \in 0..Len(history) :
       IsNew /\ LoadPartsIntoNew(SubSeq(history, 1, k), SubSeq(history, k + 1, Len(history)))
  \/ \E history \in RebuildHistories :
       IsNew /\ LoadAggregate([i \in DOMAIN history |-> Node(history[i], i - 1)])
  \/ \E stream \in RebuildHistories : IsNew /\ ApplyToNew(stream)

SpecRebuild == Init /\ [][NextRebuild]_vars

(***************************************************************************)
(* SpecBuffer: a caller that reads the pending events to persist them,     *)
(* while the aggregate goes on being used.                                 *)
(***************************************************************************)
\* const uncommittedEvents = aggregate.getUncommittedEvents()
ReadUncommittedEvents ==
  /\ Becomes(Self)
  /\ held' = getUncommittedEventsArray(Self)
  /\ last' = [op |-> "getUncommittedEvents"]
  /\ UNCHANGED <<pending, installed, chainVars>>

\* await eventService.save(aggregate.id, uncommittedEvents): the events the
\* service finds in the array when it writes them
Save ==
  /\ held # NoRef
  /\ Becomes(Self)
  /\ last' = [op |-> "save", saved |-> elementsOf(held)]
  /\ UNCHANGED <<pending, installed, held, chainVars>>

NextBuffer ==
  \/ \E event \in Events : CallApply(event, FALSE)
  \/ CallCommit
  \/ CallUncommit
  \/ ReadUncommittedEvents
  \/ Save

SpecBuffer == Init /\ [][NextBuffer]_vars

(***************************************************************************)
(* Properties of the aggregate.                                            *)
(***************************************************************************)

\* C1: after any sequence of operations getUncommittedEvents() is exactly the
\* events passed to apply with isFromHistory = false since the most recent
\* commit/uncommit (or since construction), in call order, and as long as
\* the number of those calls.
C1_UncommittedIsAppliedSinceCommit ==
  /\ getUncommittedEvents = pending
  /\ Len(getUncommittedEvents) = Len(pending)

\* two different events applied in order, on an aggregate whose state shows
\* an event that is no longer in the buffer
C1_Witness ==
  /\ last.op = "apply"
  /\ ~last.isFromHistory
  /\ pending = <<UpdatedEv, ClosedEv>>
  /\ state.id = "id-02"
  /\ uncommitted = pending

\* C2: commit() and uncommit() each leave getUncommittedEvents() empty
\* whatever its prior length, and calling either again immediately changes
\* nothing.
C2_ClearIsTotalAndIdempotent ==
  /\ last.op \in ClearingOps => getUncommittedEvents = <<>>
  /\ commit(Self).events = <<>>
  /\ uncommit(Self).events = <<>>
  /\ last.op \in ClearingOps =>
       /\ commit(Self) = Self
       /\ uncommit(Self) = Self

\* a second clearing call right after one that emptied a full buffer
C2_Witness ==
  /\ last.op \in ClearingOps
  /\ last.again
  /\ last.cleared = MaxPending
  /\ uncommitted = <<>>

\* C3: loadFromHistory, loadFromEventNodes and the chain's loads leave
\* getUncommittedEvents() as it was, on a clean and on a dirty aggregate.
C3_ReplayKeepsUncommitted ==
  [][last'.op \in ReplayOps => uncommitted' = uncommitted]_vars

\* a replay that dispatched to a handler on a dirty aggregate
C3_Witness ==
  /\ last.op = "loadFromEventNodes"
  /\ last.nodes # <<>>
  /\ calls # <<>>
  /\ uncommitted # <<>>
  /\ loaded # <<>>

IsPrefix(s, t) == Len(s) <= Len(t) /\ s = SubSeq(t, 1, Len(s))

\* C4: getLoadedEvents() is append-only: every operation leaves the earlier
\* value a prefix of the later one (commit and uncommit leave it as it is),
\* and a loadFromHistory(events) call that returns extends it by exactly
\* the given events in their order, on top of what earlier calls loaded.
C4_LoadedIsAppendOnly ==
  [][/\ IsPrefix(loaded, loaded')
     /\ last'.op \in ClearingOps => loaded' = loaded
     /\ (last'.op = "loadFromHistory" /\ result'.kind = "ok") =>
          /\ loaded' = loaded \o last'.history
          /\ Len(loaded') = Len(loaded) + Len(last'.history)]_vars

\* a second loadFromHistory call that added to what the first one loaded
C4_Witness ==
  /\ last.op = "loadFromHistory"
  /\ result.kind = "ok"
  /\ Len(last.history) = 1
  /\ Len(loaded) = 2
  /\ loaded[1] # loaded[2]

\* C5: apply(event) invokes the handler named "on" + the event's type name
\* exactly once with that event and no other handler; applying
\* Created{id: 'id-01'} to a new TestAggregate gives getState().id = 'id-01'
\* and one uncommitted event.
C5_ApplyDispatchesByName ==
  /\ last.op = "apply" =>
       calls = IF ("on" \o last.event.type) \in Methods
               THEN <<[handler |-> "on" \o last.event.type, event |-> last.event]>>
               ELSE <<>>
  /\ (last.op = "apply" /\ last.event.type = "Created") => getState.id = last.event.id
  /\ last.op = "create" =>
       /\ calls = <<[handler |-> "onCreated", event |-> Created01]>>
       /\ getState.id = "id-01"
       /\ last.fresh => Len(getUncommittedEvents) = 1

\* create() on a new TestAggregate
C5_Witness ==
  /\ last.op = "create"
  /\ last.fresh
  /\ state.id = "id-01"
  /\ Len(calls) = 1

\* C6: applying an event that has no handler returns normally, appends the
\* event to the uncommitted buffer when isFromHistory is false and not when
\* it is true, and leaves state as it was.
C6_NoHandlerIsNoError ==
  [][(last'.op = "apply" /\ ("on" \o last'.event.type) \notin Methods) =>
       /\ result'.kind = "ok"
       /\ calls' = <<>>
       /\ state' = state
       /\ uncommitted' = IF last'.isFromHistory THEN uncommitted
                         ELSE Append(uncommitted, last'.event)]_vars

\* an Updated event recorded on an aggregate whose state was already set
C6_Witness ==
  /\ last.op = "apply"
  /\ last.event = UpdatedEv
  /\ ~last.isFromHistory
  /\ state.id = "id-02"
  /\ uncommitted = <<Created02, UpdatedEv>>
  /\ result.kind = "ok"

\* C7: fail(error) with a handler installed invokes it exactly once with
\* that error and returns normally unless the handler itself raises; with
\* no handler installed it raises that same error.
C7_FailRoutesToHandler ==
  last.op = "fail" =>
    IF failureHandler # Null
    THEN /\ failureCalls = <<[handler |-> failureHandler, error |-> last.error]>>
         /\ failureHandler = "unlock" => result.kind = "ok"
         /\ failureHandler = "unlockAndThrow" =>
              result = [kind |-> "throw", error |-> last.error]
    ELSE /\ failureCalls = <<>>
         /\ result = [kind |-> "throw", error |-> last.error]

\* fail with the returning handler installed
C7_Witness ==
  /\ last.op = "fail"
  /\ failureHandler = "unlock"
  /\ Len(failureCalls) = 1
  /\ result.kind = "ok"

\* C8: the failure handler is one slot, last writer wins: fail invokes only
\* the handler of the most recent setFailureHandler call, never an earlier
\* one.
C8_LastHandlerWins ==
  /\ failureHandler = installed.latest
  /\ (last.op = "fail" /\ installed.latest # Null) =>
       /\ Len(failureCalls) = 1
       /\ \A i \in DOMAIN failureCalls : failureCalls[i].handler = installed.latest

\* fail after a handler replaced a different one
C8_Witness ==
  /\ last.op = "fail"
  /\ installed.earlier \ {installed.latest} # {}
  /\ Len(failureCalls) = 1

\* C9: with a failure handler installed, an error raised by an event handler
\* that apply runs reaches the installed handler before it reaches the
\* caller of the operation.
C9_RaisedErrorReachesHandler ==
  (last.op = "apply" /\ result.kind = "throw" /\ failureHandler # Null) =>
    failureCalls = <<[handler |-> failureHandler, error |-> result.error]>>

(***************************************************************************)
(* Properties of the assertion chain.                                      *)
(***************************************************************************)
\* the number of events of the uncommitted buffer whose type is the class's
Occurs(class) ==
  Cardinality({i \in DOMAIN uncommitted : uncommitted[i].type = class.name})

\* an event/events call with excludes armed and the single target T
ExcludesOne ==
  /\ last.op \in {"event", "events"}
  /\ "excludes" \in flags
  /\ Len(events) = 1

\* the outcome the excludes rule gives for the target
ExcludesOutcome ==
  IF Occurs(events[1]) = 0 THEN result.kind = "ok"
  ELSE /\ result.kind = "throw"
       /\ result.error.actual = ToString(Occurs(events[1]))
       /\ result.error.expected = "0"

\* C10 as stated: with excludes armed, event(T)/events(T) succeeds for every
\* uncommitted buffer in which T was never applied and fails for every
\* buffer in which T occurs k >= 1 times, reporting k (expected 0).
C10_ExcludesOnEveryBuffer == ExcludesOne => ExcludesOutcome

\* C10 amended: with excludes armed, event(T)/events(T) succeeds for every
\* non-empty uncommitted buffer in which T was never applied and fails for
\* every buffer in which T occurs k >= 1 times, reporting k (expected 0).
C10_ExcludesOnNonEmptyBuffer ==
  (ExcludesOne /\ uncommitted # <<>>) => ExcludesOutcome

\* the excluded type occurs twice, with other flags armed beside excludes
C10_Witness ==
  /\ ExcludesOne
  /\ last.op = "event"
  /\ "has" \in flags
  /\ Occurs(events[1]) = 2
  /\ result.kind = "throw"
  /\ result.error.actual = "2"

\* an event/events call was the last chain call
IsEvaluation == last.op \in {"event", "events"}

\* C11: every event/events evaluation on an aggregate whose uncommitted
\* buffer is empty raises an assertion failure, whatever flags are armed and
\* whatever targets are given; the failure reports the 0 events found where
\* 1 or more were expected.
C11_EmptyBufferAlwaysFails ==
  (IsEvaluation /\ uncommitted = <<>>) =>
    /\ result.kind = "throw"
    /\ result.error.message
         = "There are no events in the aggregate event stream to evaluate."
    /\ result.error.actual = "0"
    /\ result.error.expected = "1 or more"

\* events([]) with excludes and exactly(0) armed on an empty buffer: no
\* target could fail, and the evaluation still fails
C11_Witness ==
  /\ last.op = "events"
  /\ uncommitted = <<>>
  /\ events = <<>>
  /\ {"excludes", "exactly"} \subseteq flags
  /\ occuranceExpectation = 0
  /\ result.kind = "throw"
  /\ result.error.actual = "0"

\* the evaluation failed on the class with the given text, actual and expected
Failure(class, text, actual, expected) ==
  /\ result.kind = "throw"
  /\ result.error = [message |-> "Event '" \o class.name \o "' " \o text,
                     actual |-> actual, expected |-> expected]

\* the evaluation failed with the given text on some class
FailedWith(text) ==
  /\ result.kind = "throw"
  /\ \E class \in Classes : result.error.message = "Event '" \o class.name \o "' " \o text

\* the first of the targets in the given set of positions
FirstOf(positions) == events[CHOOSE i \in positions : \A j \in positions : i <= j]

\* an evaluation that goes past the empty-buffer rule and the excludes rule
Checks == IsEvaluation /\ uncommitted # <<>> /\ "excludes" \notin flags

\* the positions of the targets the exactly rule rejects
Miscounted == {i \in DOMAIN events : Occurs(events[i]) # occuranceExpectation}

\* C12: with exactly(n) armed, an event/events evaluation on a non-empty
\* buffer passes the exactly check iff every target type occurs exactly n
\* times in the uncommitted buffer; otherwise it fails on the first target
\* that does not, reporting actual = observed count and expected = n.
C12_ExactlyCountsEveryTarget ==
  (Checks /\ "exactly" \in flags) =>
    IF Miscounted = {}
    THEN ~FailedWith("did not match exact event count in the aggregate stream.")
    ELSE Failure(FirstOf(Miscounted),
                 "did not match exact event count in the aggregate stream.",
                 ToString(Occurs(FirstOf(Miscounted))), ToString(occuranceExpectation))

\* buffer [Created, Updated, Updated]: exactly(2) of Updated and Created
\* passes Updated and fails Created with actual 1, expected 2
C12_Witness ==
  /\ last.op = "events"
  /\ pending = <<Created01, UpdatedEv, UpdatedEv>>
  /\ events = <<Class("Updated"), Class("Created")>>
  /\ "exactly" \in flags
  /\ occuranceExpectation = 2
  /\ result.kind = "throw"
  /\ result.error.actual = "1"
  /\ result.error.expected = "2"

\* the exactly rule lets the evaluation go on
ExactlyPasses == "exactly" \notin flags \/ Miscounted = {}

\* the positions of the targets the one rule rejects
NotOnce == {i \in DOMAIN events : Occurs(events[i]) # 1}

\* C13: with the one flag armed, an event/events evaluation passes the one
\* check iff every target type occurs exactly once in the uncommitted
\* buffer; zero occurrences and more than one occurrence each fail, with
\* distinct failure messages ('not found' versus 'occurs more than once').
C13_OneMeansExactlyOnce ==
  (Checks /\ ExactlyPasses /\ "one" \in flags) =>
    IF NotOnce = {}
    THEN /\ ~FailedWith("was not found in the aggregate event stream.")
         /\ ~FailedWith("occurs more than once in the aggregate event stream.")
    ELSE IF Occurs(FirstOf(NotOnce)) = 0
    THEN Failure(FirstOf(NotOnce), "was not found in the aggregate event stream.", "0", "1")
    ELSE Failure(FirstOf(NotOnce), "occurs more than once in the aggregate event stream.",
                 ToString(Occurs(FirstOf(NotOnce))), "1")

\* one target occurs once and the next one twice
C13_Witness ==
  /\ last.op = "events"
  /\ "one" \in flags
  /\ "exactly" \notin flags
  /\ events = <<Class("Created"), Class("Updated")>>
  /\ Occurs(Class("Created")) = 1
  /\ Occurs(Class("Updated")) = 2
  /\ result.kind = "throw"
  /\ result.error.actual = "2"

\* the one rule lets the evaluation go on
OnePasses == "one" \notin flags \/ NotOnce = {}

\* the positions of the targets whose type the event at the given position
\* of the uncommitted buffer does not have
NotAt(position) == {i \in DOMAIN events : events[i].name # uncommitted[position].type}

\* the first rule lets the evaluation go on
FirstPasses == "first" \notin flags \/ NotAt(1) = {}

\* C14: position checks follow buffer insertion order. With first armed the
\* evaluation passes the check iff the event at index 0 of the uncommitted
\* buffer has every target's type; with last armed, iff the final event of
\* the buffer has every target's type. A failure reports the target as
\* actual and the type found at that end of the buffer as expected: for
\* [First, Middle, Last], 'first is Middle' reports actual = Middle and
\* expected = First.
C14_PositionFollowsInsertionOrder ==
  /\ (Checks /\ ExactlyPasses /\ OnePasses /\ "first" \in flags) =>
       IF NotAt(1) = {}
       THEN ~FailedWith("is not the first event in the aggregate event stream.")
       ELSE Failure(FirstOf(NotAt(1)),
                    "is not the first event in the aggregate event stream.",
                    FirstOf(NotAt(1)).name, pending[1].type)
  /\ (Checks /\ ExactlyPasses /\ OnePasses /\ FirstPasses /\ "last" \in flags) =>
       IF NotAt(Len(uncommitted)) = {}
       THEN ~FailedWith("is not the last event in the aggregate event stream.")
       ELSE Failure(FirstOf(NotAt(Len(uncommitted))),
                    "is not the last event in the aggregate event stream.",
                    FirstOf(NotAt(Len(uncommitted))).name, pending[Len(pending)].type)

\* events applied in the order Created, Updated, Closed: 'first is Updated'
\* fails reporting actual = Updated, expected = Created
C14_Witness ==
  /\ last.op = "event"
  /\ pending = <<Created01, UpdatedEv, ClosedEv>>
  /\ flags = {"has", "first"}
  /\ events = <<Class("Updated")>>
  /\ result.kind = "throw"
  /\ result.error.actual = "Updated"
  /\ result.error.expected = "Created"

\* the last rule lets the evaluation go on
LastPasses == "last" \notin flags \/ NotAt(Len(uncommitted)) = {}

\* the positions of the targets that do not occur in the uncommitted buffer
Absent == {i \in DOMAIN events : Occurs(events[i]) = 0}

\* the outcome of the has rule at the end of an evaluation
HasOutcome ==
  IF Absent = {} THEN result.kind = "ok"
  ELSE Failure(FirstOf(Absent), "did not match any events in the aggregate stream.", "", "")

\* an evaluation that goes past every rule before the has rule, with neither
\* one nor exactly armed
ReachesHas ==
  /\ Checks
  /\ "one" \notin flags
  /\ "exactly" \notin flags
  /\ FirstPasses
  /\ LastPasses

\* the has rule is not applied when one or exactly is armed
HasGivesWay ==
  (IsEvaluation /\ ("one" \in flags \/ "exactly" \in flags)) =>
    ~FailedWith("did not match any events in the aggregate stream.")

\* C15 as stated: has is the default occurrence check. Whenever neither one
\* nor exactly is armed (the has accessor touched or not), an event/events
\* evaluation fails unless each target type occurs at least once in the
\* uncommitted buffer; when one or exactly is armed the has check is not
\* applied.
C15_HasIsDefault == (ReachesHas => HasOutcome) /\ HasGivesWay

\* C15 amended: the has check is applied when the has flag is armed and
\* neither one nor exactly is: the evaluation then fails unless each target
\* type occurs at least once in the uncommitted buffer. On a chain whose has
\* accessor was never touched, and when one or exactly is armed, the has
\* check is not applied.
C15_HasWhenArmed ==
  /\ (ReachesHas /\ "has" \in flags) => HasOutcome
  /\ HasGivesWay
  /\ (IsEvaluation /\ "has" \notin flags) =>
       ~FailedWith("did not match any events in the aggregate stream.")

\* has armed with two targets, the second of which was never applied
C15_Witness ==
  /\ last.op = "events"
  /\ flags = {"has"}
  /\ events = <<Class("Created"), Class("Closed")>>
  /\ Occurs(Class("Created")) = 2
  /\ Occurs(Class("Closed")) = 0
  /\ result.kind = "throw"
  /\ result.error.message = "Event 'Closed' did not match any events in the aggregate stream."

(***************************************************************************)
(* Properties of when and after.                                           *)
(***************************************************************************)
\* when(fn) returned, or the promise of after(fn) for a single operation
\* settled, and nothing was called since
OperationEnded ==
  \/ last.op = "when"
  \/ /\ last.op = "after"
     /\ afterRun.phase \in {"fulfilled", "rejected"}
     /\ Len(afterRun.fnList) = 1

\* the error the operation raised, NoError when it completed
Raised == IF last.op = "when" THEN last.thrown ELSE afterRun.thrown[1]

\* C16: with throws armed and an expected message s set by with(s), a
\* when/after whose operation raises an error with message M succeeds iff s
\* is a case-insensitive substring of M, and otherwise raises an assertion
\* failure to the caller; with no message set, any raised error satisfies
\* throws.
C16_ThrowsMatchesMessage ==
  (OperationEnded /\ "throws" \in flags /\ Raised # NoError) =>
    IF withMessage = Undefined
         \/ includes(toLowerCase(Raised.message), toLowerCase(withMessage))
    THEN result.kind = "ok"
    ELSE /\ result.kind = "throw"
         /\ result.error.message = "Expected error message did not match"

\* C17: with throws armed, a when/after whose operation completes without
\* raising any error raises an assertion failure to the caller.
C17_ThrowsNeedsAnError ==
  (OperationEnded /\ "throws" \in flags /\ Raised = NoError) =>
    /\ result.kind = "throw"
    /\ result.error.message = "Failed to throw error for aggregate method"

\* the events the callbacks of a list apply, in list order
RECURSIVE appliedBy(_)
appliedBy(fnList) ==
  IF fnList = <<>> THEN <<>> ELSE applied(Head(fnList)) \o appliedBy(Tail(fnList))

\* the last n events of the uncommitted buffer
Newest(n) == SubSeq(uncommitted, Len(uncommitted) - n + 1, Len(uncommitted))

\* C18: after(list) runs its operations strictly sequentially in list order.
\* No two operations are ever in progress at once, operation i+1 begins only
\* after operation i has resolved, and the chain is delivered to the caller
\* only after the last one has resolved, with all their applied events in
\* the uncommitted buffer.
C18_AfterRunsInListOrder ==
  /\ Cardinality(afterRun.begun \ afterRun.settled) <= 1
  /\ \A i \in afterRun.begun : \A j \in 1..(i - 1) : j \in afterRun.settled
  /\ (last.op = "after" /\ result.kind = "ok") =>
       /\ afterRun.settled = DOMAIN afterRun.fnList
       /\ Len(uncommitted) >= Len(appliedBy(afterRun.fnList))
       /\ Newest(Len(appliedBy(afterRun.fnList))) = appliedBy(afterRun.fnList)

\* after([f, g]) delivered the chain: f applied Updated after a delay of its
\* own, g applied Created at once, and the buffer ends with Updated, Created
C18_Witness ==
  /\ last.op = "after"
  /\ afterRun.phase = "fulfilled"
  /\ result.kind = "ok"
  /\ afterRun.fnList = <<applyFn(UpdatedEv, TRUE), applyFn(Created01, FALSE)>>
  /\ uncommitted = <<UpdatedEv, Created01>>

(***************************************************************************)
(* Properties of includes.                                                 *)
(***************************************************************************)
\* the positions of the uncommitted events of the single target's type
Matched == {j \in DOMAIN uncommitted : uncommitted[j].type = events[1].name}

\* includes was called on a chain with a single target that selects an event
IncludesOne ==
  /\ last.op = "includes"
  /\ Len(events) = 1
  /\ uncommitted # <<>>
  /\ "last" \in flags \/ Matched # {}

\* the most recently matched event: the final event of the buffer with last
\* armed, else the latest uncommitted event of the target's type
MostRecentlyMatched ==
  IF "last" \in flags THEN uncommitted[Len(uncommitted)]
  ELSE uncommitted[CHOOSE j \in Matched : \A k \in Matched : k <= j]

\* the positions of the given fields whose value the event does not have
Offending(event) ==
  {k \in DOMAIN last.params : assertProp(event, last.params[k], "", "") # NoError}

\* C19: includes(fields) checks exactly one event, the most recently matched
\* one: with last armed, the final event of the uncommitted buffer;
\* otherwise the uncommitted event matched by the target's type identity. It
\* succeeds iff that event's value for every given field equals the expected
\* value (for array-valued fields: contains the expected elements), and
\* fails reporting the offending field's actual and expected value otherwise.
C19_IncludesChecksMostRecentMatch ==
  IncludesOne =>
    IF Offending(MostRecentlyMatched) = {} THEN result.kind = "ok"
    ELSE LET k == CHOOSE k \in Offending(MostRecentlyMatched) :
                    \A j \in Offending(MostRecentlyMatched) : k <= j
             reported == assertProp(MostRecentlyMatched, last.params[k], "", "")
         IN /\ result.kind = "throw"
            /\ result.error.actual = reported.actual
            /\ result.error.expected = reported.expected

(***************************************************************************)
(* Properties of the chain's closure.                                      *)
(***************************************************************************)
\* C20: within one chain the set of armed flags only grows: every flag armed
\* earlier is still armed at every later call on that chain. Only `and`
\* clears: it yields a fresh chain with no flags, no targets, no occurrence
\* expectation and no expected message, so the group after `and` is
\* evaluated without the flags of the group before it.
C20_FlagsGrowUntilAnd ==
  [][IF last'.op = "and"
     THEN /\ flags' = {}
          /\ events' = <<>>
          /\ occuranceExpectation' = -1
          /\ withMessage' = Undefined
     ELSE flags \subseteq flags']_vars

\* `and` after a group that armed flags, set targets, an occurrence
\* expectation and an expected message
C20_Witness ==
  /\ last.op = "and"
  /\ {"has", "excludes", "exactly", "throws"} \subseteq last.left.flags
  /\ last.left.events # <<>>
  /\ last.left.occuranceExpectation = 2
  /\ last.left.withMessage = "invalid"
  /\ flags = {}
  /\ uncommitted # <<>>

(***************************************************************************)
(* Properties of replay.                                                   *)
(***************************************************************************)
\* the events of a list of nodes
EventsOf(nodes) == [i \in DOMAIN nodes |-> nodes[i].event]

\* the handler invocations of one pass over the events, in order
RECURSIVE Dispatched(_)
Dispatched(history) ==
  IF history = <<>> THEN <<>>
  ELSE (IF ("on" \o Head(history).type) \in Methods
        THEN <<[handler |-> "on" \o Head(history).type, event |-> Head(history)]>>
        ELSE <<>>) \o Dispatched(Tail(history))

\* C21: loadFromEventNodes(nodes) with n nodes dispatches every node's event
\* to its handler exactly twice: a first pass over e1..en in order, then a
\* second full pass over e1..en in order through loadFromHistory; it extends
\* getLoadedEventNodes() by the n nodes in order and getLoadedEvents() by
\* the n events in order (each once).
C21_NodesAreDispatchedTwice ==
  [][(last'.op = "loadFromEventNodes" /\ result'.kind = "ok") =>
       /\ calls' = Dispatched(EventsOf(last'.nodes)) \o Dispatched(EventsOf(last'.nodes))
       /\ loadedNodes' = loadedNodes \o last'.nodes
       /\ loaded' = loaded \o EventsOf(last'.nodes)]_vars

\* two nodes with different handled events: four invocations, e1 e2 e1 e2
C21_Witness ==
  /\ last.op = "loadFromEventNodes"
  /\ last.nodes = CreatedNodes
  /\ result.kind = "ok"
  /\ Len(calls) = 4
  /\ calls[2].event = Created02
  /\ calls[3].event = Created01
  /\ state.id = "id-02"

\* a new aggregate was rebuilt, by loadFromHistory or by loadFromEventNodes,
\* from a history that starts with a snapshot, and the call returned
SnapshotLed ==
  /\ last.op \in {"loadHistoryIntoNew", "loadAggregate"}
  /\ last.history # <<>>
  /\ Head(last.history).type = "SnapshotBearV1Event"
  /\ result.kind = "ok"

\* the state obtained by starting from data and applying the events over the
\* top once each, in order
OverTheTop(data, history) == applyEach([Fresh EXCEPT !.state = data], history).state

\* C22: snapshot replay. For an aggregate whose snapshot handler replaces
\* state with the snapshot's data and whose other handlers depend only on
\* current state and the event, loading [S, e1, ..., en] into a fresh
\* aggregate through loadFromHistory, and likewise through
\* loadFromEventNodes, yields the state obtained by starting from S's data
\* and applying e1..en over the top once each, in order.
C22_SnapshotReplay ==
  SnapshotLed => state = OverTheTop(Head(last.history).data, Tail(last.history))

\* loadFromEventNodes of a snapshot and two events whose handler builds on
\* the id it finds: six handler invocations, each tag in the state once
C22_Witness ==
  /\ last.op = "loadAggregate"
  /\ last.history = <<SnapshotBearV1Event([id |-> "id-07", createdAt |-> "2022-04-10"]),
                      Tagged("a"), Tagged("b")>>
  /\ result.kind = "ok"
  /\ Len(calls) = 6
  /\ state = [id |-> "id-07/a/b", createdAt |-> "2022-04-10"]

\* C23: the chain never swallows an operation's error. Without throws armed,
\* when(fn) (and after(fn)) in which fn raises an error delivers that error
\* to the caller of when (for after, as the rejection of its result); when
\* does not return the chain normally in that case.
C23_OperationErrorReachesCaller ==
  (OperationEnded /\ "throws" \notin flags /\ Raised # NoError) =>
    /\ result.kind = "throw"
    /\ result.error = Raised

\* the positions of the targets that occur in the uncommitted buffer
Found == {i \in DOMAIN events : Occurs(events[i]) # 0}

\* C24: when excludes is armed, the outcome of an event/events evaluation on
\* a non-empty buffer is decided by the excludes rule alone: if no target
\* occurs it succeeds, and none of the exactly, one, first, last or has
\* checks is evaluated for that call, even if those flags are armed on the
\* same chain and would fail; if a target occurs the failure is the excludes
\* rule's, for the first target that occurs.
C24_ExcludesAloneDecides ==
  (IsEvaluation /\ uncommitted # <<>> /\ "excludes" \in flags) =>
    IF Found = {}
    THEN result.kind = "ok"
    ELSE Failure(FirstOf(Found), "was found in the aggregate event stream.",
                 ToString(Occurs(FirstOf(Found))), "0")

\* every flag is armed beside excludes, exactly with a count no absent type
\* has, and the evaluation of two absent targets succeeds
C24_Witness ==
  /\ IsEvaluation
  /\ uncommitted # <<>>
  /\ flags = Flags
  /\ occuranceExpectation > 0
  /\ Len(events) = 2
  /\ Found = {}
  /\ result.kind = "ok"

\* the event's handler raises
Raises(event) == event.type = "Closed"

\* the position of the first event of the history whose handler raises, 0 if
\* there is none
FirstRaising(history) ==
  IF \E i \in DOMAIN history : Raises(history[i])
  THEN CHOOSE i \in DOMAIN history :
         Raises(history[i]) /\ \A j \in 1..(i - 1) : ~Raises(history[j])
  ELSE 0

\* C25: recording precedes dispatch and is not rolled back. If the handler
\* raises during apply(event) with isFromHistory = false, the error
\* propagates to the caller and the event is nevertheless the last element
\* of the uncommitted buffer; during loadFromHistory(events), if the handler
\* of the k-th event raises, getLoadedEvents() has grown by exactly the first
\* k-1 events of that call and the events after k are not dispatched.
C25_RecordedBeforeDispatch ==
  [][/\ (last'.op = "apply" /\ ~last'.isFromHistory /\ Raises(last'.event)) =>
          /\ result' = [kind |-> "throw", error |-> ClosedError]
          /\ uncommitted' = Append(uncommitted, last'.event)
     /\ (last'.op = "loadFromHistory" /\ FirstRaising(last'.history) # 0) =>
          /\ result' = [kind |-> "throw", error |-> ClosedError]
          /\ loaded' = loaded \o SubSeq(last'.history, 1, FirstRaising(last'.history) - 1)
          /\ calls' = Dispatched(SubSeq(last'.history, 1, FirstRaising(last'.history)))
          /\ uncommitted' = uncommitted]_vars

\* an event whose handler raised is the newest pending event, and a history
\* whose second event raises was then loaded: one event of it was recorded as
\* loaded, two handlers ran
C25_Witness ==
  /\ uncommitted # <<>>
  /\ Raises(uncommitted[Len(uncommitted)])
  /\ last.op = "loadFromHistory"
  /\ Len(last.history) = 2
  /\ FirstRaising(last.history) = 2
  /\ result.kind = "throw"
  /\ Len(calls) = 2
  /\ loaded # <<>>
  /\ loaded[Len(loaded)] = last.history[1]

(***************************************************************************)
(* Properties of rebuilding an aggregate.                                  *)
(***************************************************************************)
\* the state of a fresh aggregate after loadFromHistory(history)
Replayed(history) == loadFromHistory(Fresh, history).state

\* C26: replay equivalence. For every event sequence E and handlers that
\* depend only on current state and the event, a fresh aggregate after
\* loadFromHistory(E) has the same state as a fresh aggregate on which each
\* event of E was applied in order with isFromHistory = false; in
\* particular, feeding one aggregate's uncommitted events to a fresh
\* aggregate's loadFromHistory reproduces the first aggregate's state, and
\* splitting E across several loadFromHistory calls gives the same state as
\* one call.
C26_ReplayEquivalence ==
  /\ (last.op = "loadHistoryIntoNew" /\ result.kind = "ok") =>
       state = applyEach(Fresh, last.history).state
  /\ last.op = "applyToNew" => Replayed(uncommitted) = state
  /\ (last.op = "loadPartsIntoNew" /\ result.kind = "ok") =>
       state = Replayed(last.history)

\* a history of a snapshot and two events that build on the state they find
\* was loaded in two calls, each with a part of it
C26_Witness ==
  /\ last.op = "loadPartsIntoNew"
  /\ result.kind = "ok"
  /\ Len(last.history) = 3
  /\ Len(last.first) \in {1, 2}
  /\ last.history[2].type = "Tagged"
  /\ last.history[3].type = "Tagged"
  /\ last.history[2] # last.history[3]
  /\ state.id = Head(last.history).data.id \o "/" \o last.history[2].tag
                  \o "/" \o last.history[3].tag

(***************************************************************************)
(* Properties of the buffer handed out.                                    *)
(***************************************************************************)
\* a caller holds a sequence it got from getUncommittedEvents()
Holds == held # NoRef

\* C27: getUncommittedEvents() returns the live buffer, not a copy: a
\* sequence obtained from it reflects every later apply and commit/uncommit
\* on the same aggregate, so a caller that reads the pending events and then
\* calls commit() (or has commit() called while it is still persisting
\* them) finds the sequence it read empty.
C27_LiveBuffer ==
  Holds =>
    /\ elementsOf(held) = uncommitted
    /\ last.op \in ClearingOps => elementsOf(held) = <<>>
    /\ last.op = "save" => last.saved = uncommitted

\* the caller read two pending events, commit() was called, and the save
\* that followed found nothing to write
C27_Witness ==
  /\ Len(held.read) = 2
  /\ last.op = "save"
  /\ last.saved = <<>>
  /\ pending = <<>>
====
